---- MODULE Spec2Model ----
(***************************************************************************)
(* Model of js/game.js of SingleSellerMarketGame: the data classes         *)
(* OperationModel, BoardInformation and BoardController, and the two       *)
(* versions of the start_game bootstrap (the async one of js/game.js and   *)
(* the synchronous one of the second copy of the file).                    *)
(*                                                                         *)
(* JavaScript values are records [tag, s, n] of one shape, so that any two *)
(* of them can be compared: tag is the typeof tag (with "null" and "error" *)
(* apart), s is the string value or the class of an object, n is the       *)
(* number value or the address of an object in its heap.                   *)
(***************************************************************************)
EXTENDS Integers, Sequences, FiniteSets, TLC

VARIABLES
  arrays,       \* heap of Array objects: address -> sequence of JS values
  models,       \* heap of OperationModel objects, in order of construction
  calls,        \* history: calls[i] is the argument list models[i] was built from
  boards,       \* heap of BoardInformation objects
  bcalls,       \* history: argument lists of the BoardInformation constructions
  controllers,  \* heap of BoardController objects
  ccalls,       \* history: argument lists of the BoardController constructions
  queries,      \* log of the decision-kind lookups made on controllers
  pc,           \* per copy of the file: where its start_game call is
  load,         \* per copy: state of the promise tf.loadModel returned
  loaded,       \* per copy: the name field of the model the load delivered
  loc,          \* per copy: the local variable loc of start_game
  alerts,       \* per copy: the alert dialogs shown, in order
  outcome       \* per copy: what the caller of start_game got back

vars == <<arrays, models, calls, boards, bcalls, controllers, ccalls, queries,
          pc, load, loaded, loc, alerts, outcome>>

dataVars  == <<arrays, models, calls, boards, bcalls, controllers, ccalls, queries>>
startVars == <<pc, load, loaded, loc, alerts, outcome>>

(***************************************************************************)
(* Bounds of the model.                                                    *)
(***************************************************************************)
MaxModels == 2
MaxBoards == 2
MaxControllers == 1
MaxQueries == 1
MaxMetricsLen == 2

(***************************************************************************)
(* JavaScript values.                                                      *)
(***************************************************************************)
Undefined == [tag |-> "undefined", s |-> "", n |-> 0]
Null      == [tag |-> "null", s |-> "", n |-> 0]
Str(x)    == [tag |-> "string", s |-> x, n |-> 0]
Num(x)    == [tag |-> "number", s |-> "", n |-> x]
ArrRef(a) == [tag |-> "object", s |-> "Array", n |-> a]
ModelRef(i) == [tag |-> "object", s |-> "OperationModel", n |-> i]
TfModel   == [tag |-> "object", s |-> "tf.Model", n |-> 0]
ResolutionError == [tag |-> "error", s |-> "ResolutionError", n |-> 0]

IsArray(v, h) == v.tag = "object" /\ v.s = "Array" /\ v.n \in DOMAIN h

\* The value a formal parameter is bound to: the i-th argument, or undefined
\* when the call passes fewer than i arguments.
Param(args, i) == IF i <= Len(args) THEN args[i] ELSE Undefined

(***************************************************************************)
(* class OperationModel                                                    *)
(***************************************************************************)
\* optimizer="adam" in the parameter list, and the check of the body
\* (optimizer === undefined): the default replaces undefined and nothing else.
DefaultOptimizerSgd(v) == IF v = Undefined THEN Str("sgd") ELSE v
DefaultOptimizerFalsy(v) == IF v \in {Undefined, Null, Str("")} THEN Str("adam") ELSE v
DefaultOptimizer(v) == IF v = Undefined THEN Str("adam") ELSE v

\* metrics=["accuracy"] in the parameter list, and the check of the body
\* (metrics === undefined). The array literal is evaluated at each call that
\* needs it, so it allocates a new Array object in the heap h.
DefaultMetricsString(v, h) ==
  IF v = Undefined THEN [val |-> Str("accuracy"), heap |-> h]
                   ELSE [val |-> v, heap |-> h]
DefaultMetricsShared(v, h) ==
  LET d == {a \in DOMAIN h : h[a][1] = Str("accuracy")}
  IN IF v = Undefined
       THEN IF d # {}
              THEN [val |-> ArrRef(CHOOSE a \in d : \A b \in d : a <= b), heap |-> h]
              ELSE [val |-> ArrRef(Len(h) + 1), heap |-> Append(h, <<Str("accuracy")>>)]
       ELSE [val |-> v, heap |-> h]
DefaultMetrics(v, h) ==
  IF v = Undefined
    THEN [val |-> ArrRef(Len(h) + 1), heap |-> Append(h, <<Str("accuracy")>>)]
    ELSE [val |-> v, heap |-> h]

\* new OperationModel(...args) run on the heap h: the object built and the
\* heap after the call.
OperationModel(args, h) ==
  LET optimizer0 == DefaultOptimizer(Param(args, 7))      \* parameter initializer
      metrics0   == DefaultMetrics(Param(args, 8), h)     \* parameter initializer
      optimizer  == DefaultOptimizer(optimizer0)          \* if (optimizer === undefined)
      metrics    == DefaultMetrics(metrics0.val, metrics0.heap) \* if (metrics === undefined)
  IN [obj |-> [model          |-> Param(args, 1),
               name           |-> Param(args, 2),
               operation      |-> Param(args, 3),
               loss           |-> Param(args, 4),
               true_threshold |-> Param(args, 5),
               max_cash_limit |-> Param(args, 6),
               optimizer      |-> optimizer,
               metrics        |-> metrics.val],
      heap |-> metrics.heap]

\* The array literal a caller writes in the argument list is evaluated, and so
\* allocated, before the constructor runs: an argument ArrRef(Len(h)+1) stands
\* for such a literal with the contents lit.
WithLiteral(args, h, lit) ==
  IF \E k \in DOMAIN args : args[k] = ArrRef(Len(h) + 1) THEN Append(h, lit) ELSE h

NewOperationModel(args) ==
  /\ Len(models) < MaxModels
  /\ LET r == OperationModel(args, WithLiteral(args, arrays, <<Str("mse")>>))
     IN /\ models' = Append(models, r.obj)
        /\ arrays' = r.heap
  /\ calls' = Append(calls, args)
  /\ UNCHANGED <<boards, bcalls, controllers, ccalls, queries, startVars>>

\* A holder of an OperationModel changes the list its metrics field refers to
\* (metrics.push(v)): the field is a plain reference to a mutable Array.
MutateMetrics(i, v) ==
  /\ i \in DOMAIN models
  /\ IsArray(models[i].metrics, arrays)
  /\ Len(arrays[models[i].metrics.n]) < MaxMetricsLen
  /\ arrays' = [arrays EXCEPT ![models[i].metrics.n] = Append(@, v)]
  /\ UNCHANGED <<models, calls, boards, bcalls, controllers, ccalls, queries, startVars>>

\* The decision categories of the README and of the data model.
DecisionKinds == {Str("purchase"), Str("upgrade/downgrade"), Str("trade-offer"),
                  Str("trade-decision")}

\* Argument lists of the constructions explored: 6, 7 or 8 arguments.
OperationArgs == {Str("trade-offer"), Str("bogus")}
OptimizerArgs == {Undefined, Null, Str("sgd")}
MetricsArgs(h) == {Undefined, Null, ArrRef(Len(h) + 1)} \cup {ArrRef(a) : a \in DOMAIN h}
Args6(names, ops) ==
  {<<TfModel, nm, op, Str("binary_crossentropy"), Num(1), Num(1500)>> :
     nm \in names, op \in ops}
ArgLists(names, ops, opts, mets) ==
  LET a6 == Args6(names, ops)
      a7 == {Append(a, o) : a \in a6, o \in opts}
      a8 == {Append(a, m) : a \in a7, m \in mets}
  IN a6 \cup a7 \cup a8

(***************************************************************************)
(* class BoardInformation                                                  *)
(***************************************************************************)
BoardInformationSwapped(args) ==
  [player_names     |-> Param(args, 1),
   max_cash_limit   |-> Param(args, 2),
   available_houses |-> Param(args, 4),
   available_hotels |-> Param(args, 3)]
BoardInformation(args) ==
  [player_names     |-> Param(args, 1),
   max_cash_limit   |-> Param(args, 2),
   available_houses |-> Param(args, 3),
   available_hotels |-> Param(args, 4)]

NewBoardInformation(args) ==
  /\ Len(boards) < MaxBoards
  /\ boards' = Append(boards, BoardInformation(args))
  /\ bcalls' = Append(bcalls, args)
  /\ arrays' = WithLiteral(args, arrays, <<Str("Alice"), Str("Bob")>>)
  /\ UNCHANGED <<models, calls, controllers, ccalls, queries, startVars>>

(***************************************************************************)
(* class BoardController                                                   *)
(***************************************************************************)
BoardControllerSwapped(args) ==
  [operation_models |-> Param(args, 2),
   upgrade_limit    |-> Param(args, 1)]
BoardControllerSharedLimit(args) ==
  [operation_models |-> Param(args, 1),
   upgrade_limit    |-> Param(args, 1)]
BoardController(args) ==
  [operation_models |-> Param(args, 1),
   upgrade_limit    |-> Param(args, 2)]

\* new BoardController([...coll], limit): the collection is an array literal
\* of references to OperationModel objects, allocated by the caller.
NewBoardController(coll, limit) ==
  /\ Len(controllers) < MaxControllers
  /\ LET args == <<ArrRef(Len(arrays) + 1), limit>>
     IN /\ controllers' = Append(controllers, BoardController(args))
        /\ ccalls' = Append(ccalls, [args |-> args, coll |-> coll])
  /\ arrays' = Append(arrays, coll)
  /\ UNCHANGED <<models, calls, boards, bcalls, queries, startVars>>

\* The lookup of section 4.4 of the specification: the unique OperationModel
\* of the controller's collection whose operation is the requested kind, or a
\* ResolutionError when none or more than one has it. The class of the source
\* stores the collection and the limit and has no such method.
Resolve(ctrl, kind, ms, h) ==
  LET coll == IF IsArray(ctrl.operation_models, h)
                THEN h[ctrl.operation_models.n] ELSE <<>>
      matches == {k \in DOMAIN coll :
                    /\ coll[k].s = "OperationModel"
                    /\ coll[k].n \in DOMAIN ms
                    /\ ms[coll[k].n].operation = kind}
  IN IF Cardinality(matches) = 1
       THEN coll[CHOOSE k \in matches : TRUE]
       ELSE ResolutionError

Query(c, kind) ==
  /\ Len(queries) < MaxQueries
  /\ c \in DOMAIN controllers
  /\ queries' = Append(queries, [ctrl |-> c, kind |-> kind,
                                 result |-> Resolve(controllers[c], kind, models, arrays)])
  /\ UNCHANGED <<arrays, models, calls, boards, bcalls, controllers, ccalls, startVars>>

(***************************************************************************)
(* start_game                                                              *)
(*                                                                         *)
(* The promise tf.loadModel returns settles from the event loop, so only   *)
(* while no JavaScript of the page runs: while start_game is suspended at  *)
(* its await, or after it has returned. alert blocks the page until the    *)
(* dialog is dismissed.                                                    *)
(***************************************************************************)
Settled == {"fulfilled", "rejected"}
ComingSoon == Str("Not yet implented. coming soon")

\* An alert dialog: the text shown, whether the text was read from the model
\* variable, and (history) the state of the load when the dialog was shown.
Alert(text, ofModel, at) == [text |-> text, ofModel |-> ofModel, at |-> at]

\* js/game.js: async function start_game, up to the await. The caller gets
\* the pending promise of the async function.
StartGameJs(path) ==
  /\ pc["js"] = "idle"
  /\ loc' = [loc EXCEPT !["js"] = Str(path)]
  /\ load' = [load EXCEPT !["js"] = "pending"]
  /\ pc' = [pc EXCEPT !["js"] = "await"]
  /\ outcome' = [outcome EXCEPT !["js"] = "pending"]
  /\ UNCHANGED <<dataVars, loaded, alerts>>

\* The load delivers the model, or fails.
LoadFulfilled(f, name) ==
  /\ load[f] = "pending"
  /\ pc[f] \in {"await", "returned"}
  /\ load' = [load EXCEPT ![f] = "fulfilled"]
  /\ loaded' = [loaded EXCEPT ![f] = name]
  /\ UNCHANGED <<dataVars, pc, loc, alerts, outcome>>

LoadRejected(f) ==
  /\ load[f] = "pending"
  /\ pc[f] \in {"await", "returned"}
  /\ load' = [load EXCEPT ![f] = "rejected"]
  /\ UNCHANGED <<dataVars, pc, loaded, loc, alerts, outcome>>

\* js/game.js: the await completes. A fulfilled load binds model and runs on
\* to alert(model.name); a rejected one throws out of the async function,
\* which rejects the promise its caller holds.
ResumeJs ==
  /\ pc["js"] = "await"
  /\ load["js"] \in Settled
  /\ IF load["js"] = "fulfilled"
       THEN /\ alerts' = [alerts EXCEPT !["js"] =
                            Append(@, Alert(loaded["js"], TRUE, load["js"]))]
            /\ pc' = [pc EXCEPT !["js"] = "alert_loc"]
            /\ UNCHANGED outcome
       ELSE /\ pc' = [pc EXCEPT !["js"] = "done"]
            /\ outcome' = [outcome EXCEPT !["js"] = "rejected"]
            /\ UNCHANGED alerts
  /\ UNCHANGED <<dataVars, load, loaded, loc>>

AlertLocJs ==
  /\ pc["js"] = "alert_loc"
  /\ alerts' = [alerts EXCEPT !["js"] = Append(@, Alert(loc["js"], FALSE, load["js"]))]
  /\ pc' = [pc EXCEPT !["js"] = "alert_soon"]
  /\ UNCHANGED <<dataVars, load, loaded, loc, outcome>>

AlertSoonJs ==
  /\ pc["js"] = "alert_soon"
  /\ alerts' = [alerts EXCEPT !["js"] = Append(@, Alert(ComingSoon, FALSE, load["js"]))]
  /\ pc' = [pc EXCEPT !["js"] = "done"]
  /\ outcome' = [outcome EXCEPT !["js"] = "fulfilled"]
  /\ UNCHANGED <<dataVars, load, loaded, loc>>

\* The second copy of the file: function start_game is not async and does not
\* await. model is the pending promise itself, which has no name property, so
\* alert(model.name) shows undefined at once.
StartGameUnnamed ==
  /\ pc["unnamed"] = "idle"
  /\ load' = [load EXCEPT !["unnamed"] = "pending"]
  /\ alerts' = [alerts EXCEPT !["unnamed"] = Append(@, Alert(Undefined, TRUE, "pending"))]
  /\ pc' = [pc EXCEPT !["unnamed"] = "alert_soon"]
  /\ UNCHANGED <<dataVars, loaded, loc, outcome>>

\* The second copy: the last alert, and the normal return to the caller.
AlertSoonUnnamed ==
  /\ pc["unnamed"] = "alert_soon"
  /\ alerts' = [alerts EXCEPT !["unnamed"] =
                  Append(@, Alert(ComingSoon, FALSE, load["unnamed"]))]
  /\ pc' = [pc EXCEPT !["unnamed"] = "returned"]
  /\ outcome' = [outcome EXCEPT !["unnamed"] = "returned"]
  /\ UNCHANGED <<dataVars, load, loaded, loc>>

(***************************************************************************)
(* Initial state and specifications.                                       *)
(***************************************************************************)
Files == {"js", "unnamed"}

Init ==
  /\ arrays = <<>>
  /\ models = <<>>
  /\ calls = <<>>
  /\ boards = <<>>
  /\ bcalls = <<>>
  /\ controllers = <<>>
  /\ ccalls = <<>>
  /\ queries = <<>>
  /\ pc = [f \in Files |-> "idle"]
  /\ load = [f \in Files |-> "none"]
  /\ loaded = [f \in Files |-> Undefined]
  /\ loc = [f \in Files |-> Undefined]
  /\ alerts = [f \in Files |-> <<>>]
  /\ outcome = [f \in Files |-> "none"]

\* Constructions of OperationModel with every shape of argument list, and
\* changes of the metrics lists by their holders.
ConstructAny ==
  \E args \in ArgLists({Str("purchase_model")}, OperationArgs, OptimizerArgs,
                       MetricsArgs(arrays)) : NewOperationModel(args)
ChangeMetrics == \E i \in DOMAIN models : MutateMetrics(i, Str("mae"))

NextOM == ConstructAny \/ ChangeMetrics
SpecOM == Init /\ [][NextOM]_vars

\* The bootstrap of both copies of the file.
Paths == {"/SingleSellerMarketGame/", "/SingleSellerMarketGame/index.html"}
ModelNames == {Str("amaranth"), Str("model_1")}

StartJs == \E path \in Paths : StartGameJs(path)
LoadOk == \E f \in Files : \E name \in ModelNames : LoadFulfilled(f, name)
LoadFail == \E f \in Files : LoadRejected(f)

NextStart ==
  \/ StartJs \/ LoadOk \/ LoadFail \/ ResumeJs \/ AlertLocJs \/ AlertSoonJs
  \/ StartGameUnnamed \/ AlertSoonUnnamed
SpecStart == Init /\ [][NextStart]_vars

\* The constructions of a game set-up: OperationModels with optimizer
\* "rmsprop" and metrics omitted, BoardInformation, BoardController.
ScenarioOps == {Str("purchase"), Str("trade-decision")}
ScenarioArgs ==
  {<<TfModel, Str("purchase_model"), Str("purchase"),
     Str("binary_crossentropy"), Num(1), Num(1500), Str("rmsprop")>>,
   <<TfModel, Str("trade_model"), Str("trade-decision"),
     Str("binary_crossentropy"), Num(1), Num(1500), Str("rmsprop")>>}
ConstructScenario == \E args \in ScenarioArgs : NewOperationModel(args)

Collections ==
  {<<>>} \cup {<<ModelRef(i)>> : i \in DOMAIN models}
         \cup {<<ModelRef(i), ModelRef(j)>> : i, j \in DOMAIN models}
ConstructController ==
  \E coll \in Collections : \E limit \in {Num(4), Num(0)} : NewBoardController(coll, limit)
Lookup ==
  \E c \in DOMAIN controllers : \E kind \in ScenarioOps \cup {Str("trade-offer")} :
    Query(c, kind)

NextCtl == ConstructScenario \/ ConstructController \/ Lookup
SpecCtl == Init /\ [][NextCtl]_vars

\* The roster is a new array literal, or the list an earlier board refers to.
ConstructBoard ==
  \E names \in {ArrRef(Len(arrays) + 1)} \cup {boards[i].player_names : i \in DOMAIN boards} :
    \E houses \in {Num(32), Num(0)} :
      NewBoardInformation(<<names, Num(1500), houses, Num(12)>>)

NextInfo == ConstructBoard \/ ConstructScenario \/ NextStart
SpecInfo == Init /\ [][NextInfo]_vars

(***************************************************************************)
(* Properties of the OperationModel constructor.                           *)
(***************************************************************************)
\* The list the metrics field of models[i] refers to, in the heap h.
MetricsOf(i, h) == h[models[i].metrics.n]
Defaulted(i) == Len(calls[i]) < 8

\* C1: every construction that passes fewer than seven arguments, and so omits
\* optimizer, yields an object whose optimizer is "adam", whatever the first
\* six arguments are.
C1_OmittedOptimizerIsAdam ==
  \A i \in DOMAIN models : Len(calls[i]) < 7 => models[i].optimizer = Str("adam")
C1_Witness ==
  \E i \in DOMAIN models :
    /\ Len(calls[i]) = 6
    /\ calls[i][3] = Str("trade-offer")
    /\ models[i].optimizer = Str("adam")

\* C2: every construction that passes fewer than eight arguments, and so omits
\* metrics, yields an object whose metrics is a list holding "accuracy" and
\* nothing else, also when optimizer is passed.
C2_OmittedMetricsIsAccuracy ==
  [][Len(models') = Len(models) + 1 /\ Len(calls'[Len(models')]) < 8
       => /\ IsArray(models'[Len(models')].metrics, arrays')
          /\ arrays'[models'[Len(models')].metrics.n] = <<Str("accuracy")>>]_vars
C2_Witness ==
  \E i \in DOMAIN models :
    /\ Len(calls[i]) = 7
    /\ calls[i][7] = Str("sgd")
    /\ IsArray(models[i].metrics, arrays)
    /\ MetricsOf(i, arrays) = <<Str("accuracy")>>

\* C3 as claimed: whenever the caller passes a seventh (eighth) argument, the
\* object's optimizer (metrics) is that argument.
C3_ExplicitNeverDefaulted ==
  \A i \in DOMAIN models :
    /\ Len(calls[i]) >= 7 => models[i].optimizer = calls[i][7]
    /\ Len(calls[i]) >= 8 => models[i].metrics = calls[i][8]

\* C3 amended: whenever the caller passes a seventh (eighth) argument other
\* than undefined, the object's optimizer (metrics) is that argument; null and
\* the other falsy values are kept.
C3_ExplicitDefinedKept ==
  \A i \in DOMAIN models :
    /\ Len(calls[i]) >= 7 /\ calls[i][7] # Undefined
         => models[i].optimizer = calls[i][7]
    /\ Len(calls[i]) >= 8 /\ calls[i][8] # Undefined
         => models[i].metrics = calls[i][8]
C3_Witness ==
  /\ \E i \in DOMAIN models :
       /\ Len(calls[i]) = 8
       /\ calls[i][7] = Str("sgd") /\ models[i].optimizer = Str("sgd")
       /\ IsArray(calls[i][8], arrays) /\ models[i].metrics = calls[i][8]
       /\ MetricsOf(i, arrays)[1] = Str("mse")
  /\ \E i \in DOMAIN models :
       Len(calls[i]) >= 7 /\ calls[i][7] = Null /\ models[i].optimizer = Null

\* C8 as claimed: the operation kind of every OperationModel that exists is
\* one of the four decision categories.
C8_OperationIsDecisionKind ==
  \A i \in DOMAIN models : models[i].operation \in DecisionKinds

\* Two objects built with metrics omitted never refer to the same list.
C10_DistinctDefaults ==
  \A i, j \in DOMAIN models :
    i # j /\ Defaulted(i) /\ Defaulted(j) => models[i].metrics # models[j].metrics
\* A step that changes the list of one defaulted object changes the list of no
\* other, and a defaulted construction yields ["accuracy"].
C10_StepKeepsOthers ==
  /\ \A i, j \in DOMAIN models :
       /\ i # j /\ Defaulted(i) /\ Defaulted(j)
       /\ MetricsOf(i, arrays') # MetricsOf(i, arrays)
       => MetricsOf(j, arrays') = MetricsOf(j, arrays)
  /\ Len(models') = Len(models) + 1 /\ Len(calls'[Len(models')]) < 8
       => arrays'[models'[Len(models')].metrics.n] = <<Str("accuracy")>>
\* C10: two objects built with metrics omitted never refer to the same list; a
\* step that changes the list of one of them changes the list of no other; and
\* a construction with metrics omitted yields ["accuracy"] also after lists of
\* earlier objects were changed.
C10_FreshDefaultMetrics == []C10_DistinctDefaults /\ [][C10_StepKeepsOthers]_vars
C10_Witness ==
  \E i, j \in DOMAIN models :
    /\ i # j /\ Defaulted(i) /\ Defaulted(j)
    /\ MetricsOf(i, arrays) = <<Str("accuracy"), Str("mae")>>
    /\ MetricsOf(j, arrays) = <<Str("accuracy")>>

(***************************************************************************)
(* Properties of start_game.                                               *)
(***************************************************************************)
\* Every alert of the copy f was shown with the load settled.
AlertsAfterLoad(f) == \A k \in DOMAIN alerts[f] : alerts[f][k].at \in Settled
\* A failed load of the copy f ends start_game with an error outcome and
\* without an alert computed from the model.
FailureSurfaced(f) ==
  load[f] = "rejected" /\ pc[f] \in {"done", "returned"}
    => /\ outcome[f] = "rejected"
       /\ \A k \in DOMAIN alerts[f] : ~alerts[f][k].ofModel

\* C4 as claimed: in both copies of the file, every alert of start_game, the
\* one that reads model.name included, is shown only once the load has
\* delivered the model or failed.
C4_AlertsAfterLoad == \A f \in Files : AlertsAfterLoad(f)

\* C5 as claimed: in both copies of the file, once the load has failed and
\* start_game has finished, its caller holds an error outcome and no alert
\* computed from the model was shown.
C5_FetchFailureSurfaced == \A f \in Files : FailureSurfaced(f)

(***************************************************************************)
(* Properties of BoardController and BoardInformation.                     *)
(***************************************************************************)
\* The positions of the collection a controller was built from whose model
\* was constructed for the decision kind.
Hits(c, kind) ==
  {x \in DOMAIN ccalls[c].coll : calls[ccalls[c].coll[x].n][3] = kind}

C7_EmptyFails ==
  \A k \in DOMAIN queries :
    LET q == queries[k]
        cc == ccalls[q.ctrl]
    IN cc.coll = <<>>
         => /\ q.result = ResolutionError
            /\ controllers[q.ctrl] =
                 [operation_models |-> cc.args[1], upgrade_limit |-> cc.args[2]]
            /\ arrays[cc.args[1].n] = <<>>
\* A lookup changes no controller, collection or model.
C7_LookupChangesNothing ==
  queries' # queries => controllers' = controllers /\ arrays' = arrays /\ models' = models
C9_Exposes ==
  \A i \in DOMAIN boards :
    /\ boards[i].player_names = bcalls[i][1]
    /\ boards[i].max_cash_limit = bcalls[i][2]
    /\ boards[i].available_houses = bcalls[i][3]
    /\ boards[i].available_hotels = bcalls[i][4]
\* A step changes no existing BoardInformation and no roster list.
C9_StepKeeps ==
  \A i \in DOMAIN boards :
    /\ i \in DOMAIN boards' /\ boards'[i] = boards[i]
    /\ arrays'[boards[i].player_names.n] = arrays[boards[i].player_names.n]
\* C9: a BoardInformation exposes the four arguments it was constructed with,
\* and no step (a start_game step of either copy, a further construction)
\* changes a BoardInformation that exists or the list its player_names is.
C9_BoardInformationFixed == []C9_Exposes /\ [][C9_StepKeeps]_vars
C9_Witness ==
  /\ Len(boards) = 2
  /\ boards[1].max_cash_limit = Num(1500)
  /\ boards[1].available_houses = Num(32)
  /\ boards[1].available_hotels = Num(12)
  /\ arrays[boards[1].player_names.n] = <<Str("Alice"), Str("Bob")>>
  /\ boards[2].available_houses = Num(0)
  /\ Len(models) >= 1
  /\ pc["js"] = "done" /\ pc["unnamed"] = "returned"

====
